---- MODULE Spec2Model ----
(***************************************************************************)
(* Model of profile_cairo_streamlit.py: the offset-to-scope resolution     *)
(* (infer_function_scope), the trace aggregation (parse_trace_and_profile) *)
(* and the ranking done in main.                                           *)
(*                                                                         *)
(* Python dicts keep insertion order, and main's sort is stable, so a dict *)
(* is modelled as a sequence of <<key, value>> pairs in insertion order.   *)
(* The debug-info index is only ever looked up, so it is a function from   *)
(* its keys to the info records.  A pc text is a sequence of one-character *)
(* strings, so that int() can be computed digit by digit.                  *)
(***************************************************************************)
EXTENDS Integers, Sequences, FiniteSets, TLC

VARIABLES offset_to_info, trace, pc_counts, scope_counts, foldIdx,
          resolveLog, returned, exception, sorted_scopes, pc

vars == <<offset_to_info, trace, pc_counts, scope_counts, foldIdx,
          resolveLog, returned, exception, sorted_scopes, pc>>

(***************************************************************************)
(* Bounds of the model.                                                    *)
(***************************************************************************)
\* rows read from trace.csv in one run
MaxRows == 3
\* largest key of the index in the runs of the whole profiler
AggMaxOffset == 2
\* largest key of the index in the specification of infer_function_scope
MaxOffset == 4
\* number of entries of the index
MaxEntries == 2

(***************************************************************************)
(* Inputs.                                                                 *)
(***************************************************************************)
\* accessible_scopes lists of program.json; the last element is the innermost
ScopeLists == { <<>>, <<"m.g">>, <<"m", "m.f">> }

\* every scope identifier that occurs, and the sentinel
AllScopes == {"m", "m.f", "m.g", "unmapped"}

\* instruction_locations values that carry accessible_scopes
InfosWithScopes == { [accessible_scopes |-> l] : l \in ScopeLists }

\* ... and one that carries other fields only
InfoWithoutScopes == [hints |-> <<>>]

\* the "pc" column of trace.csv: decimal, 0x-prefixed hexadecimal, negative
\* decimal, and texts that are numbers in neither base
PcTexts == { <<"0">>, <<"1">>, <<"0", "x", "1">>, <<"-", "1">>,
             <<"z", "z">>, <<"0", "x">> }

\* the dicts load_program_json can return: keys 0..maxOffset, at most
\* MaxEntries of them, values drawn from infos
Indexes(maxOffset, infos) ==
    UNION { [keys -> infos] :
            keys \in { k \in SUBSET (0..maxOffset) : Cardinality(k) <= MaxEntries } }

(***************************************************************************)
(* dict and defaultdict(int), in insertion order.                          *)
(***************************************************************************)
Keys(d) == { d[i][1] : i \in DOMAIN d }

Get(d, k) == d[CHOOSE i \in DOMAIN d : d[i][1] = k][2]

\* d[k] += n on a defaultdict(int): a missing key is created as 0 at the end,
\* a present key keeps its place
AddToWrong(d, k, n) ==
    IF k \in Keys(d)
    THEN [i \in DOMAIN d |-> IF d[i][1] = k THEN <<k, n>> ELSE d[i]]
    ELSE Append(d, <<k, n>>)

AddTo(d, k, n) ==
    IF k \in Keys(d)
    THEN [i \in DOMAIN d |-> IF d[i][1] = k THEN <<k, d[i][2] + n>> ELSE d[i]]
    ELSE Append(d, <<k, 0 + n>>)

(***************************************************************************)
(* int(text, base) of Python, on texts without whitespace and underscores. *)
(***************************************************************************)
HexLower == << "0", "1", "2", "3", "4", "5", "6", "7", "8", "9",
               "a", "b", "c", "d", "e", "f" >>

HexUpper == << "0", "1", "2", "3", "4", "5", "6", "7", "8", "9",
               "A", "B", "C", "D", "E", "F" >>

\* the value of a digit character, -1 for any other character
DigitValue(c) ==
    IF \E i \in DOMAIN HexLower : HexLower[i] = c
    THEN (CHOOSE i \in DOMAIN HexLower : HexLower[i] = c) - 1
    ELSE IF \E i \in DOMAIN HexUpper : HexUpper[i] = c
    THEN (CHOOSE i \in DOMAIN HexUpper : HexUpper[i] = c) - 1
    ELSE -1

RECURSIVE Magnitude(_, _)
Magnitude(digits, base) ==
    IF digits = <<>> THEN 0
    ELSE Magnitude(SubSeq(digits, 1, Len(digits) - 1), base) * base
         + DigitValue(digits[Len(digits)])

\* int(text, base): an optional sign, for base 16 an optional 0x/0X prefix,
\* then at least one digit of the base; anything else raises ValueError
PyInt(text, base) ==
    LET signed   == Len(text) >= 1 /\ text[1] \in {"+", "-"}
        unsigned == IF signed THEN Tail(text) ELSE text
        prefixed == /\ base = 16
                    /\ Len(unsigned) >= 2
                    /\ unsigned[1] = "0"
                    /\ unsigned[2] \in {"x", "X"}
        digits   == IF prefixed THEN SubSeq(unsigned, 3, Len(unsigned)) ELSE unsigned
        ok       == /\ digits # <<>>
                    /\ \A i \in DOMAIN digits : DigitValue(digits[i]) \in 0..(base - 1)
        mag      == Magnitude(digits, base)
    IN  [ok |-> ok,
         val |-> IF ~ok THEN 0 ELSE IF signed /\ text[1] = "-" THEN 0 - mag ELSE mag]

\* pc_str.startswith("0x")
StartsWith0x(text) == Len(text) >= 2 /\ text[1] = "0" /\ text[2] = "x"

\* the base line 70 selects
BaseOf(text) == IF StartsWith0x(text) THEN 16 ELSE 10

\* int(pc_str, 16) if pc_str.startswith("0x") else int(pc_str)
ParsePc(text) == PyInt(text, BaseOf(text))

(***************************************************************************)
(* infer_function_scope.                                                   *)
(***************************************************************************)
\* info.get("accessible_scopes", [])
AccessibleScopes(info) ==
    IF "accessible_scopes" \in DOMAIN info THEN info.accessible_scopes ELSE <<>>

\* the neighbours probed, in order
DiffsMinusFirst == << -1, 1, 2, -2 >>

DiffsRadius3 == << 1, -1, 2, -2, 3, -3 >>

Diffs == << 1, -1, 2, -2 >>

\* the loop over diffs, from the i-th on
RECURSIVE ProbeFrom(_, _, _)
ProbeFrom(i, offset, index) ==
    IF i > Len(Diffs) THEN "unmapped"
    ELSE LET neighbor == offset + Diffs[i]
         IN  IF neighbor \in DOMAIN index /\ AccessibleScopes(index[neighbor]) # <<>>
             THEN LET scopes == AccessibleScopes(index[neighbor])
                  IN  scopes[Len(scopes)]
             ELSE ProbeFrom(i + 1, offset, index)

\* a present entry with no scopes falls through to the neighbours, and the
\* first scope is taken for the last
InferFirstScopeOrNeighbor(offset, index) ==
    IF offset \in DOMAIN index /\ AccessibleScopes(index[offset]) # <<>>
    THEN AccessibleScopes(index[offset])[1]
    ELSE ProbeFrom(1, offset, index)

infer_function_scope(offset, index) ==
    IF offset \in DOMAIN index
    THEN LET scopes == AccessibleScopes(index[offset])
         IN  IF scopes # <<>> THEN scopes[Len(scopes)] ELSE "unmapped"
    ELSE ProbeFrom(1, offset, index)

(***************************************************************************)
(* sorted(scope_counts.items(), key=lambda x: -x[1]): a stable sort, so    *)
(* items of equal count keep the order they have in the dict.              *)
(***************************************************************************)
\* the place of item in an already sorted list: behind every item whose key
\* is not greater
InsertSortedTiesFirst(sorted, item) ==
    LET behind == { i \in DOMAIN sorted : 0 - sorted[i][2] < 0 - item[2] }
        n      == Cardinality(behind)
    IN  SubSeq(sorted, 1, n) \o <<item>> \o SubSeq(sorted, n + 1, Len(sorted))

InsertSorted(sorted, item) ==
    LET behind == { i \in DOMAIN sorted : 0 - sorted[i][2] <= 0 - item[2] }
        n      == Cardinality(behind)
    IN  SubSeq(sorted, 1, n) \o <<item>> \o SubSeq(sorted, n + 1, Len(sorted))

RECURSIVE SortedByCount(_)
SortedByCount(items) ==
    IF items = <<>> THEN <<>>
    ELSE InsertSorted(SortedByCount(SubSeq(items, 1, Len(items) - 1)),
                      items[Len(items)])

(***************************************************************************)
(* One run of the profiler: main calls load_program_json, then             *)
(* parse_trace_and_profile, then sorts what it returns.                    *)
(*   pc = "reading"  in the loop over the rows of trace.csv                *)
(*   pc = "folding"  in the loop over pc_counts.items()                    *)
(*   pc = "returned" parse_trace_and_profile has returned scope_counts     *)
(*   pc = "sorted"   main has sorted the items                             *)
(*   pc = "raised"   int() raised; the exception leaves main               *)
(* trace is the rows read so far; resolveLog is the calls of               *)
(* infer_function_scope made so far, with what each returned.              *)
(* returned and exception hold at most one element.                        *)
(***************************************************************************)
Start(index) ==
    /\ offset_to_info = index
    /\ trace = <<>>
    /\ pc_counts = <<>>
    /\ scope_counts = <<>>
    /\ foldIdx = 1
    /\ resolveLog = <<>>
    /\ returned = <<>>
    /\ exception = <<>>
    /\ sorted_scopes = <<>>
    /\ pc = "reading"

Init == \E index \in Indexes(AggMaxOffset, InfosWithScopes) : Start(index)

\* a row that is no number is skipped instead of raising
ReadRowSkipInvalid ==
    /\ pc = "reading"
    /\ Len(trace) < MaxRows
    /\ \E pc_str \in PcTexts :
          LET parsed == ParsePc(pc_str)
          IN  /\ trace' = Append(trace, pc_str)
              /\ IF parsed.ok
                 THEN pc_counts' = AddTo(pc_counts, parsed.val, 1)
                 ELSE UNCHANGED pc_counts
    /\ UNCHANGED <<offset_to_info, scope_counts, foldIdx, resolveLog,
                   returned, exception, sorted_scopes, pc>>

\* the scope is resolved for every row as it is read
ReadRowResolving ==
    /\ pc = "reading"
    /\ Len(trace) < MaxRows
    /\ \E pc_str \in PcTexts :
          LET parsed == ParsePc(pc_str)
          IN  /\ trace' = Append(trace, pc_str)
              /\ IF parsed.ok
                 THEN /\ pc_counts' = AddTo(pc_counts, parsed.val, 1)
                      /\ resolveLog' = Append(resolveLog,
                             [offset |-> parsed.val,
                              scope |-> infer_function_scope(parsed.val, offset_to_info)])
                      /\ UNCHANGED <<exception, pc>>
                 ELSE /\ exception' = << [type |-> "ValueError",
                                          literal |-> pc_str,
                                          base |-> BaseOf(pc_str)] >>
                      /\ pc' = "raised"
                      /\ UNCHANGED <<pc_counts, resolveLog>>
    /\ UNCHANGED <<offset_to_info, scope_counts, foldIdx,
                   returned, sorted_scopes>>

\* lines 67-71: one row of the reader
ReadRow ==
    /\ pc = "reading"
    /\ Len(trace) < MaxRows
    /\ \E pc_str \in PcTexts :
          LET parsed == ParsePc(pc_str)
          IN  /\ trace' = Append(trace, pc_str)
              /\ IF parsed.ok
                 THEN /\ pc_counts' = AddTo(pc_counts, parsed.val, 1)
                      /\ UNCHANGED <<exception, pc>>
                 ELSE /\ exception' = << [type |-> "ValueError",
                                          literal |-> pc_str,
                                          base |-> BaseOf(pc_str)] >>
                      /\ pc' = "raised"
                      /\ UNCHANGED pc_counts
    /\ UNCHANGED <<offset_to_info, scope_counts, foldIdx, resolveLog,
                   returned, sorted_scopes>>

\* lines 67, 74: the reader is exhausted, scope_counts is created
EndOfStream ==
    /\ pc = "reading"
    /\ scope_counts' = <<>>
    /\ foldIdx' = 1
    /\ pc' = "folding"
    /\ UNCHANGED <<offset_to_info, trace, pc_counts, resolveLog, returned,
                   exception, sorted_scopes>>

\* the scope is credited with one step per distinct offset
FoldOffsetOncePerOffset ==
    /\ pc = "folding"
    /\ foldIdx <= Len(pc_counts)
    /\ LET offset == pc_counts[foldIdx][1]
           scope  == infer_function_scope(offset, offset_to_info)
       IN  /\ resolveLog' = Append(resolveLog, [offset |-> offset, scope |-> scope])
           /\ scope_counts' = AddTo(scope_counts, scope, 1)
    /\ foldIdx' = foldIdx + 1
    /\ UNCHANGED <<offset_to_info, trace, pc_counts, returned, exception,
                   sorted_scopes, pc>>

\* the lookup creates the entry it misses, as offset_to_info[offset] on a
\* defaultdict(dict) would
FoldOffsetInsertingKey ==
    /\ pc = "folding"
    /\ foldIdx <= Len(pc_counts)
    /\ LET offset == pc_counts[foldIdx][1]
           count  == pc_counts[foldIdx][2]
           scope  == infer_function_scope(offset, offset_to_info)
       IN  /\ resolveLog' = Append(resolveLog, [offset |-> offset, scope |-> scope])
           /\ scope_counts' = AddTo(scope_counts, scope, count)
           /\ offset_to_info' =
                 [k \in DOMAIN offset_to_info \cup {offset} |->
                    IF k \in DOMAIN offset_to_info THEN offset_to_info[k]
                    ELSE [accessible_scopes |-> <<>>]]
    /\ foldIdx' = foldIdx + 1
    /\ UNCHANGED <<trace, pc_counts, returned, exception, sorted_scopes, pc>>

\* lines 76-78: one item of pc_counts
FoldOffset ==
    /\ pc = "folding"
    /\ foldIdx <= Len(pc_counts)
    /\ LET offset == pc_counts[foldIdx][1]
           count  == pc_counts[foldIdx][2]
           scope  == infer_function_scope(offset, offset_to_info)
       IN  /\ resolveLog' = Append(resolveLog, [offset |-> offset, scope |-> scope])
           /\ scope_counts' = AddTo(scope_counts, scope, count)
    /\ foldIdx' = foldIdx + 1
    /\ UNCHANGED <<offset_to_info, trace, pc_counts, returned, exception,
                   sorted_scopes, pc>>

\* line 80
Return ==
    /\ pc = "folding"
    /\ foldIdx > Len(pc_counts)
    /\ returned' = <<scope_counts>>
    /\ pc' = "returned"
    /\ UNCHANGED <<offset_to_info, trace, pc_counts, scope_counts, foldIdx,
                   resolveLog, exception, sorted_scopes>>

\* line 96
Sort ==
    /\ pc = "returned"
    /\ sorted_scopes' = SortedByCount(returned[1])
    /\ pc' = "sorted"
    /\ UNCHANGED <<offset_to_info, trace, pc_counts, scope_counts, foldIdx,
                   resolveLog, returned, exception>>

\* lines 88-93: the button is pressed again; the same program.json is loaded
\* and a new trace is read
Rerun ==
    /\ pc \in {"sorted", "raised"}
    /\ offset_to_info' = offset_to_info
    /\ trace' = <<>>
    /\ pc_counts' = <<>>
    /\ scope_counts' = <<>>
    /\ foldIdx' = 1
    /\ resolveLog' = <<>>
    /\ returned' = <<>>
    /\ exception' = <<>>
    /\ sorted_scopes' = <<>>
    /\ pc' = "reading"

Next == ReadRow \/ EndOfStream \/ FoldOffset \/ Return \/ Sort \/ Rerun

Spec == Init /\ [][Next]_vars

(***************************************************************************)
(* infer_function_scope on its own: any index, any offset around its keys. *)
(* resolveLog holds the last call.                                         *)
(***************************************************************************)
QueryOffsets == (0 - 2)..(MaxOffset + 2)

InitResolve ==
    /\ \E index \in Indexes(MaxOffset, InfosWithScopes \cup {InfoWithoutScopes}) :
          Start(index)

ResolveCall ==
    /\ \E offset \in QueryOffsets :
          resolveLog' = << [offset |-> offset,
                            scope |-> infer_function_scope(offset, offset_to_info)] >>
    /\ UNCHANGED <<offset_to_info, trace, pc_counts, scope_counts, foldIdx,
                   returned, exception, sorted_scopes, pc>>

NextResolve == ResolveCall

SpecResolve == InitResolve /\ [][NextResolve]_vars

(***************************************************************************)
(* Properties.                                                             *)
(***************************************************************************)
RECURSIVE SumValues(_)
SumValues(d) == IF d = <<>> THEN 0 ELSE d[1][2] + SumValues(Tail(d))

Last(seq) == seq[Len(seq)]

\* the offsets of the rows read so far
TraceOffsets == { ParsePc(trace[i]).val : i \in DOMAIN trace }

\* the place of key k in dict d
Place(d, k) == CHOOSE i \in DOMAIN d : d[i][1] = k

\* C1: the values of the ScopeCount that parse_trace_and_profile returns sum
\* to the number of rows read, and none is negative.
C1_SumEqualsRecords ==
    returned # <<>> =>
        /\ SumValues(returned[1]) = Len(trace)
        /\ \A i \in DOMAIN returned[1] : returned[1][i][2] >= 0

C1_Witness ==
    /\ returned # <<>>
    /\ Len(trace) = 3
    /\ Len(returned[1]) = 2
    /\ \E i \in DOMAIN returned[1] : returned[1][i][2] = 2

\* the scope identifiers in ascending lexical (code point) order
ScopeLexOrder == << "m", "m.f", "m.g", "unmapped" >>

LexLess(a, b) ==
    (CHOOSE i \in DOMAIN ScopeLexOrder : ScopeLexOrder[i] = a)
        < (CHOOSE i \in DOMAIN ScopeLexOrder : ScopeLexOrder[i] = b)

\* C2, as claimed: the ranked output is sorted by count descending, and
\* scopes of equal count appear in ascending lexical order.
C2_LexicalTieBreak ==
    pc = "sorted" =>
        \A i, j \in DOMAIN sorted_scopes :
            i < j => \/ sorted_scopes[i][2] > sorted_scopes[j][2]
                     \/ /\ sorted_scopes[i][2] = sorted_scopes[j][2]
                        /\ LexLess(sorted_scopes[i][1], sorted_scopes[j][1])

\* C2, amended: the ranked output holds the items of the ScopeCount, sorted
\* by count descending, and scopes of equal count appear in the order in
\* which they were first accumulated into the ScopeCount.
C2_StableTieBreak ==
    pc = "sorted" =>
        /\ Len(sorted_scopes) = Len(returned[1])
        /\ { sorted_scopes[i] : i \in DOMAIN sorted_scopes }
              = { returned[1][i] : i \in DOMAIN returned[1] }
        /\ \A i, j \in DOMAIN sorted_scopes :
              i < j => \/ sorted_scopes[i][2] > sorted_scopes[j][2]
                       \/ /\ sorted_scopes[i][2] = sorted_scopes[j][2]
                          /\ Place(returned[1], sorted_scopes[i][1])
                                < Place(returned[1], sorted_scopes[j][1])

C2_Witness ==
    /\ pc = "sorted"
    /\ \E i, j \in DOMAIN sorted_scopes :
          /\ i < j
          /\ sorted_scopes[i][2] = sorted_scopes[j][2]
          /\ LexLess(sorted_scopes[j][1], sorted_scopes[i][1])

\* an entry of the index that yields a scope
Qualifies(n) ==
    /\ n \in DOMAIN offset_to_info
    /\ "accessible_scopes" \in DOMAIN offset_to_info[n]
    /\ Len(offset_to_info[n].accessible_scopes) > 0

InnermostScope(n) == Last(offset_to_info[n].accessible_scopes)

\* C3: for an offset that has an entry, the result is the last scope of that
\* entry, or "unmapped" when the entry has no scopes, whatever the
\* neighbours hold.
C3_DirectEntryDecides ==
    \A c \in DOMAIN resolveLog :
        LET call == resolveLog[c]
        IN  call.offset \in DOMAIN offset_to_info =>
                call.scope = IF Qualifies(call.offset)
                             THEN InnermostScope(call.offset)
                             ELSE "unmapped"

C3_Witness ==
    \E c \in DOMAIN resolveLog :
        LET call == resolveLog[c]
        IN  /\ call.offset \in DOMAIN offset_to_info
            /\ ~Qualifies(call.offset)
            /\ Qualifies(call.offset + 1)
            /\ call.scope = "unmapped"

\* the neighbours in the order claimed
ProbeOrder(offset) == << offset + 1, offset - 1, offset + 2, offset - 2 >>

\* C4: for an offset without an entry, the result is the last scope of the
\* first of offset+1, offset-1, offset+2, offset-2 that has an entry with a
\* non-empty scope list.
C4_FirstQualifyingNeighbour ==
    \A c \in DOMAIN resolveLog :
        LET call   == resolveLog[c]
            probes == ProbeOrder(call.offset)
            hits   == { i \in DOMAIN probes : Qualifies(probes[i]) }
        IN  (call.offset \notin DOMAIN offset_to_info /\ hits # {}) =>
                call.scope =
                    InnermostScope(probes[CHOOSE i \in hits : \A k \in hits : i <= k])

C4_Witness ==
    \E c \in DOMAIN resolveLog :
        LET call == resolveLog[c]
        IN  /\ call.offset \notin DOMAIN offset_to_info
            /\ Qualifies(call.offset + 1)
            /\ Qualifies(call.offset - 1)
            /\ InnermostScope(call.offset + 1) # InnermostScope(call.offset - 1)
            /\ call.scope = InnermostScope(call.offset + 1)

\* C5: when neither the offset nor any of its four neighbours has an entry
\* with a non-empty scope list, the result is "unmapped", also when an entry
\* at distance 3 or more has scopes; every call returns a scope.
C5_UnmappedBeyondRadius ==
    \A c \in DOMAIN resolveLog :
        LET call   == resolveLog[c]
            probes == ProbeOrder(call.offset)
        IN  /\ call.scope \in AllScopes
            /\ (/\ ~Qualifies(call.offset)
                /\ \A i \in DOMAIN probes : ~Qualifies(probes[i]))
               => call.scope = "unmapped"

C5_Witness ==
    \E c \in DOMAIN resolveLog :
        LET call == resolveLog[c]
        IN  /\ call.offset \in {0, 1}
            /\ Qualifies(call.offset + 3)
            /\ call.scope = "unmapped"

DecChars == { "0", "1", "2", "3", "4", "5", "6", "7", "8", "9" }

HexChars == DecChars \cup { "a", "b", "c", "d", "e", "f", "A", "B", "C", "D", "E", "F" }

\* a text that is a number under the base its prefix selects
ValidNumber(text) ==
    IF StartsWith0x(text)
    THEN /\ Len(text) > 2
         /\ \A i \in 3..Len(text) : text[i] \in HexChars
    ELSE LET digits == IF text # <<>> /\ text[1] \in {"+", "-"} THEN Tail(text) ELSE text
         IN  /\ digits # <<>>
             /\ \A i \in DOMAIN digits : digits[i] \in DecChars

C7_OffsetsNonNegative ==
    /\ \A i \in DOMAIN pc_counts : pc_counts[i][1] >= 0
    /\ \A c \in DOMAIN resolveLog : resolveLog[c].offset >= 0

\* C8: nothing is resolved while rows are still being read, and once the
\* aggregation has returned every distinct offset of the trace has been
\* resolved exactly once and no other offset has.
C8_ResolveOncePerDistinctOffset ==
    /\ pc \in {"reading", "raised"} => resolveLog = <<>>
    /\ \A c, e \in DOMAIN resolveLog :
          resolveLog[c].offset = resolveLog[e].offset => c = e
    /\ \A c \in DOMAIN resolveLog : resolveLog[c].offset \in TraceOffsets
    /\ pc \in {"returned", "sorted"} =>
          { resolveLog[c].offset : c \in DOMAIN resolveLog } = TraceOffsets

C8_Witness ==
    /\ pc = "returned"
    /\ Len(trace) = 3
    /\ Len(resolveLog) = 2

\* the rows of the trace that a per-row loop would credit to scope s
RowsResolvingTo(s) ==
    { i \in DOMAIN trace :
        infer_function_scope(ParsePc(trace[i]).val, offset_to_info) = s }

\* C9: the ScopeCount returned credits every scope with the number of rows
\* whose pc resolves to it, and has no key for a scope no row resolves to.
C9_SameAsPerRecordLoop ==
    returned # <<>> =>
        /\ Cardinality(Keys(returned[1])) = Len(returned[1])
        /\ Keys(returned[1]) \subseteq AllScopes
        /\ \A s \in AllScopes :
              IF RowsResolvingTo(s) = {}
              THEN s \notin Keys(returned[1])
              ELSE /\ s \in Keys(returned[1])
                   /\ Get(returned[1], s) = Cardinality(RowsResolvingTo(s))

C9_Witness ==
    /\ returned # <<>>
    /\ \E c, e \in DOMAIN resolveLog :
          /\ c # e
          /\ resolveLog[c].scope = resolveLog[e].scope
          /\ resolveLog[c].scope # "unmapped"
          /\ Get(returned[1], resolveLog[c].scope) = 3

\* C10: no step of a run changes the index.
C10_IndexNeverChanges == [][offset_to_info' = offset_to_info]_vars

C10_Witness ==
    /\ pc = "sorted"
    /\ \E c \in DOMAIN resolveLog :
          /\ resolveLog[c].offset \notin DOMAIN offset_to_info
          /\ (resolveLog[c].offset + 1) \notin DOMAIN offset_to_info
          /\ resolveLog[c].scope # "unmapped"
====
